---- MODULE Spec2Model ----
(***************************************************************************)
(* The content-extraction endpoints of backend/api/routers/content.py      *)
(* (the router mounted by backend/main.py), the TimeoutMiddleware around   *)
(* them, and the shared extraction cache.                                  *)
(*                                                                         *)
(* Strings are modelled by their length (0 is the empty string), except    *)
(* titles, which are kept as strings.  An HTML fragment is a record        *)
(* [by, len]: the strategy that produced it and its length.                *)
(* One action is one synchronous run of a handler between two awaits.      *)
(* sanitize_html_for_reader of backend/utils/html_to_markdown.py works on  *)
(* documents [banned, imgs]; the proxy endpoints of content.py and         *)
(* content_improved.py keep their state in the variable proxy.             *)
(***************************************************************************)
EXTENDS Integers, Sequences, FiniteSets, TLC

VARIABLES world, now, ticks, started_count, extraction_cache, req, sanitizer, proxy,
          proxy_cache, md, token_cache, optimizer, limiter, jsonld, calls

vars == <<world, now, ticks, started_count, extraction_cache, req, sanitizer, proxy,
          proxy_cache, md, token_cache, optimizer, limiter, jsonld, calls>>

(* The state of the components beside the extraction and proxy endpoints *)
aside == <<proxy_cache, md, token_cache, optimizer, limiter, jsonld, calls>>

----------------------------------------------------------------------------
(* Program constants *)

CACHE_TTL == 3600

STALE_FACTOR == 24

REQUEST_TIMEOUT == 30

SLEEP_DELAY == 1

NODE_MIN_HTML == 50

AMP_RAW_MIN == 500

PW_MIN_HTML == 200

RENDERED_MIN == 500

READABLE_MIN == 100

SERVICE_SUCCESS_MIN == 50

(* Bounds of the model *)

MaxTicks == 4

MaxRequests == 3

MaxPipelineTicks == 2

MaxPipelineRequests == 1

MaxConcurrentTicks == 2

MaxConcurrentRequests == 2

MaxImprovedTicks == 3

MaxImprovedRequests == 2

Slots == {1, 2}

(* world = "pipeline": one request, every outcome of every fetch, parse and  *)
(* render.  world = "cache": requests one after the other over a long time,  *)
(* each strategy either fails or yields one fixed fragment.                  *)
(* world = "concurrent": as "cache", with two requests in flight at once.    *)
(* world = "improved": the router of content_improved.py over the            *)
(* ContentExtractionService, requests one after the other.                   *)
Rich == world = "pipeline"

ActiveSlots == IF world = "concurrent" THEN Slots ELSE {1}

TickLimit ==
    CASE world \in {"pipeline", "proxy"} -> MaxPipelineTicks
      [] world = "cache" -> MaxTicks
      [] world = "improved" -> MaxImprovedTicks
      [] world = "concurrent" -> MaxConcurrentTicks

RequestLimit ==
    CASE world \in {"pipeline", "proxy"} -> MaxPipelineRequests
      [] world = "cache" -> MaxRequests
      [] world = "improved" -> MaxImprovedRequests
      [] world = "concurrent" -> MaxConcurrentRequests

URLS == {"u1", "u2"}

Kinds == {"extract", "extract_markdown"}

WorldKinds == IF world = "concurrent" THEN {"extract"} ELSE Kinds

Deltas == {SLEEP_DELAY, CACHE_TTL - 1}

----------------------------------------------------------------------------
(* Values *)

NoFragment == [by |-> "none", len |-> 0]

NoArticle == [text |-> 0, title |-> "", html |-> 0, top_node |-> 0, by |-> "none"]

NoResponse == [status |-> 0]

EmptyCache == [u \in {} |-> NoResponse]

IdleRequest ==
    [pc |-> "idle", id |-> 0, kind |-> "extract", url |-> "u1", started |-> 0,
     held |-> EmptyCache, article |-> NoArticle, source_html |-> NoFragment,
     rendered |-> 0, tried |-> <<>>, driver |-> "none", browser |-> "none",
     path |-> "none", result |-> NoResponse, response |-> NoResponse]

AwaitPcs == {"sleep", "refetch", "rawfetch", "ampfetch", "pw_launch", "pw_render", "pw_close"}

----------------------------------------------------------------------------
(* The extraction cache: a dict from url to {'data', 'cached_at'} *)

ExpiredInclusive(c, t) == {k \in DOMAIN c : t - c[k].cached_at >= CACHE_TTL}

Expired(c, t) == {k \in DOMAIN c : t - c[k].cached_at > CACHE_TTL}

cleanup_cache(c, t) == [k \in (DOMAIN c) \ Expired(c, t) |-> c[k]]

CacheHitInclusive(c, u, t) == u \in DOMAIN c /\ t - c[u].cached_at <= CACHE_TTL

CacheHit(c, u, t) == u \in DOMAIN c /\ t - c[u].cached_at < CACHE_TTL

StaleHit(c, u, t) == u \in DOMAIN c /\ t - c[u].cached_at < CACHE_TTL * STALE_FACTOR

CacheWriteIfAbsent(c, u, d, t) ==
    [k \in (DOMAIN c) \cup {u} |-> IF k \in DOMAIN c THEN c[k] ELSE [data |-> d, cached_at |-> t]]

CacheWrite(c, u, d, t) ==
    [k \in (DOMAIN c) \cup {u} |-> IF k = u THEN [data |-> d, cached_at |-> t] ELSE c[k]]

----------------------------------------------------------------------------
(* Environment outcomes drawn for one synchronous run of the handler *)

Env ==
    IF Rich
    THEN [doc_ok : BOOLEAN, pw_avail : BOOLEAN, md : {"raise", "ok"}, img : BOOLEAN]
    ELSE [doc_ok : BOOLEAN, pw_avail : BOOLEAN, md : {"ok"}, img : {FALSE}]

ParsedArticles ==
    IF Rich
    THEN [text : {0, 300}, title : {"", "T"}, html : {600}, top_node : {0, 120, 300},
          by : {"primary"}]
    ELSE {[text |-> 300, title |-> "T", html |-> 600, top_node |-> 300, by |-> "primary"],
          [text |-> 0, title |-> "", html |-> 600, top_node |-> 0, by |-> "primary"]}

DownloadOutcomes == [ok : {FALSE}, art : {NoArticle}] \cup [ok : {TRUE}, art : ParsedArticles]

FetchOutcomes ==
    [ok : {FALSE}, len : {0}] \cup [ok : {TRUE}, len : IF Rich THEN {0, 600} ELSE {600}]

ReparseOutcomes ==
    [ok : {FALSE}, text : {0}, title : {""}, top_node : {0}]
        \cup (IF Rich
              THEN [ok : {TRUE}, text : {0, 300}, title : {"", "T"}, top_node : {0, 300}]
              ELSE {})

ThirdPartyTexts == IF Rich THEN {0, 300} ELSE {0}

AmpOutcomes ==
    [ok : {FALSE}, node : {0}, text : {0}]
        \cup (IF Rich THEN [ok : {TRUE}, node : {0, 120, 300}, text : {0, 600}]
              ELSE [ok : {TRUE}, node : {0}, text : {0}])

SelectorOutcomes ==
    IF Rich THEN [ok : {FALSE}, len : {0}] \cup [ok : {TRUE}, len : {0, 40, 120, 300}]
    ELSE [ok : {TRUE}, len : {0, 120}]

JsonLdBodies == IF Rich THEN {0, 10, 300} ELSE {0}

LaunchOutcomes == IF Rich THEN {"start_raises", "launch_raises", "ok"} ELSE {"ok"}

RenderOutcomes ==
    [ok : {FALSE}, len : {0}] \cup [ok : {TRUE}, len : IF Rich THEN {300, 600} ELSE {600}]

RenderedNodes ==
    IF Rich THEN [ok : {FALSE}, len : {0}] \cup [ok : {TRUE}, len : {0, 40, 300}]
    ELSE [ok : {TRUE}, len : {0}]

CloseOutcomes == IF Rich THEN BOOLEAN ELSE {TRUE}

JSONLD_WRAPPER == 39

----------------------------------------------------------------------------
(* Results and responses *)

Attempt(s, out) == [s |-> s, out |-> out]

FailureDict(t) ==
    [title |-> "", content |-> 0, markdown |-> 0, success |-> FALSE]

html_to_markdown(src) == src.len

ReaderHtml(src, img) == [by |-> src.by, len |-> src.len, clean |-> img /\ src.len > 0]

Success(art, src) == art.text > 0 \/ src.len > 0

Result(art, src, e, t) ==
    [title |-> IF art.title = "" THEN "Untitled" ELSE art.title,
     content |-> art.text,
     reader_html |-> ReaderHtml(src, e.img),
     markdown |-> html_to_markdown(src),
     success |-> Success(art, src)]

MarkdownCached(u, data) ==
    [url |-> u, title |-> data.title, markdown |-> data.markdown, success |-> TRUE]

MarkdownSuccess(result) == result.success

MarkdownResponse(u, result, t) ==
    IF MarkdownSuccess(result)
    THEN [url |-> u, title |-> result.title, markdown |-> result.markdown, success |-> TRUE]
    ELSE [url |-> u, title |-> "", markdown |-> 0, success |-> FALSE,
          reason |-> "Failed to extract markdown"]

Return(rq, path, result, body) ==
    [rq EXCEPT !.pc = "done", !.path = path, !.result = result,
               !.response = [status |-> 200, body |-> body],
               !.article = NoArticle, !.source_html = NoFragment, !.rendered = 0]

ExtractReturn(rq, path, result, t) ==
    Return(rq, path, result,
           IF rq.kind = "extract" THEN result ELSE MarkdownResponse(rq.url, result, t))

----------------------------------------------------------------------------
(* The synchronous segments of extract_content, last to first *)

ShouldWrite(result) == TRUE

Finish(rq, art, src, e, c, t) ==
    IF e.md = "raise"
    THEN [rq |-> ExtractReturn(rq, "error", FailureDict(t), t), cache |-> c]
    ELSE LET result == Result(art, src, e, t)
         IN  [rq |-> ExtractReturn(rq, "fresh", result, t),
              cache |-> IF ShouldWrite(result) THEN CacheWrite(c, rq.url, result, t) ELSE c]

NeedsRender(src) == src.len < PW_MIN_HTML

PlaywrightCheck(rq, art, src, e, c, t) ==
    IF NeedsRender(src) /\ e.pw_avail
    THEN [rq |-> [rq EXCEPT !.pc = "pw_launch", !.article = art, !.source_html = src],
          cache |-> c]
    ELSE Finish(rq, art, src, e, c, t)

AfterRaw(rq, art, src, raw, e, c, t) ==
    IF raw > 0 /\ e.doc_ok
    THEN [rq |-> [rq EXCEPT !.pc = "ampfetch", !.article = art, !.source_html = src],
          cache |-> c]
    ELSE PlaywrightCheck(rq, art, src, e, c, t)

NeedsFallback(art, src) == src.len = 0 \/ (art.text = 0 /\ art.title = "")

FallbackBlock(rq, art, src, e, c, t) ==
    IF NeedsFallback(art, src)
    THEN IF art.html = 0
         THEN [rq |-> [rq EXCEPT !.pc = "rawfetch", !.article = art, !.source_html = src],
               cache |-> c]
         ELSE AfterRaw(rq, art, src, art.html, e, c, t)
    ELSE PlaywrightCheck(rq, art, src, e, c, t)

SourceHtml(art) ==
    IF art.top_node > 0 THEN [by |-> art.by, len |-> art.top_node]
    ELSE IF art.html > 0 THEN [by |-> art.by, len |-> art.html]
    ELSE IF art.text > 0 THEN [by |-> art.by, len |-> art.text + 7]
    ELSE NoFragment

BuildAndFallback(rq, art, e, c, t) == FallbackBlock(rq, art, SourceHtml(art), e, c, t)

----------------------------------------------------------------------------
(* HTML documents as sanitize_html_for_reader sees them.  A URL is the       *)
(* sequence of its layers, innermost first: "abs" or "rel" for the URL       *)
(* itself, one more "rel" layer for each /content/proxy/image?url= wrapped  *)
(* around it.  <<>> is a missing src.                                        *)

MaxImages == 2

NoUrl == <<>>

SourceUrls == {NoUrl, <<"rel">>, <<"abs">>}

RawImg(u) == [src |-> u, orig |-> NoUrl, lazy |-> FALSE, async |-> FALSE, fades |-> 0]

SeqUpTo(S, n) == UNION {[1..k -> S] : k \in 0..n}

EmptyDoc == [banned |-> FALSE, imgs |-> <<>>]

Docs == [banned : BOOLEAN, imgs : SeqUpTo({RawImg(u) : u \in SourceUrls}, MaxImages)]

(* urljoin(base_url, src) when a base_url is given, src itself otherwise *)
urljoin(base, u) == IF base /\ u # NoUrl THEN [u EXCEPT ![Len(u)] = "abs"] ELSE u

(* f"/content/proxy/image?url={quote_plus(resolved)}" *)
ProxyUrl(u) == Append(u, "rel")

(* lines 57-70 applied to one img *)
Rewrite(img, resolved) ==
    [src |-> ProxyUrl(resolved), orig |-> resolved, lazy |-> TRUE, async |-> TRUE,
     fades |-> img.fades + 1]

HasSrc(img) == img.src # NoUrl

(* The for loop of lines 37-54 leaves img as the last img of the document    *)
(* and resolved as the resolved src of the last img that has one; lines      *)
(* 57-70 stand after the loop and run once, on those two.  resolved is       *)
(* unbound (NameError) when keep_images is false or no img has a src; the    *)
(* last img is a decomposed tag when it has no src, and detached_raises says *)
(* whether writing an attribute of a decomposed tag raises.                  *)
sanitize_html_for_reader(doc, base, keep_images, detached_raises) ==
    LET n     == Len(doc.imgs)
        kept  == IF keep_images THEN SelectSeq(doc.imgs, HasSrc) ELSE <<>>
        bound == keep_images /\ \E i \in 1..n : HasSrc(doc.imgs[i])
    IN  IF ~bound
        THEN [raised |-> TRUE, doc |-> doc]
        ELSE IF ~HasSrc(doc.imgs[n])
             THEN IF detached_raises
                  THEN [raised |-> TRUE, doc |-> doc]
                  ELSE [raised |-> FALSE, doc |-> [banned |-> FALSE, imgs |-> kept]]
             ELSE LET m == Len(kept)
                  IN  [raised |-> FALSE,
                       doc |-> [banned |-> FALSE,
                                imgs |-> [kept EXCEPT ![m] =
                                             Rewrite(@, urljoin(base, kept[m].src))]]]

(* extract_content lines 388-392: the sanitized fragment, or source_html     *)
(* itself when the sanitizer raises                                          *)
ReaderDoc(doc, detached_raises) ==
    LET r == sanitize_html_for_reader(doc, TRUE, TRUE, detached_raises)
    IN  IF r.raised THEN doc ELSE r.doc

NoSanitized == [raised |-> FALSE, doc |-> EmptyDoc]

IdleSanitizer ==
    [pc |-> "idle", html |-> EmptyDoc, base |-> FALSE, keep |-> FALSE,
     once |-> NoSanitized, twice |-> NoSanitized, reader |-> EmptyDoc]

----------------------------------------------------------------------------
(* The proxy endpoints: proxy_content and proxy_image *)

USER_AGENTS == 4

Routers == {"content", "improved"}

Endpoints == {"proxy", "image"}

Schemes == {"http", "data"}

NoFetch == [ok |-> FALSE, err |-> "none", status |-> 0, image |-> FALSE]

(* What client.get and raise_for_status give for one identity: a 2xx answer  *)
(* (image says that it is of an image type or at least 1024 bytes long), an  *)
(* error status, a connection error; httpx refuses a data: URL itself.       *)
FetchResults(scheme) ==
    IF scheme = "data"
    THEN {[ok |-> FALSE, err |-> "unsupported_protocol", status |-> 0, image |-> FALSE]}
    ELSE [ok : {TRUE}, err : {"none"}, status : {200}, image : BOOLEAN]
            \cup [ok : {FALSE}, err : {"status"}, status : {403, 500}, image : {FALSE}]
            \cup [ok : {FALSE}, err : {"connect"}, status : {0}, image : {FALSE}]

IdleProxy ==
    [pc |-> "idle", router |-> "content", endpoint |-> "proxy", scheme |-> "http",
     started |-> 0, tried |-> <<>>, last_error |-> NoFetch, response |-> NoResponse]

(* content_improved.py lines 219-224: a 2xx answer that is no image and is   *)
(* small is passed over; content.py returns every 2xx answer.                *)
Accepts(router, res) == res.ok /\ (router = "improved" => res.image)

ExhaustedAtOnce(i) == i >= 1

Exhausted(i) == i = USER_AGENTS

ProxyOk(i) == [status |-> 200, from |-> i, body |-> [content |-> "fetched"]]

(* raise HTTPException(status_code=400, detail=f"Failed to proxy ...: {e}") *)
ProxyError(endpoint, error) ==
    [status |-> 400, from |-> 0, body |-> [detail |-> [failed |-> endpoint, error |-> error]]]

ProxyTimedOut == [status |-> 504, from |-> 0, body |-> [text |-> "Request timeout"]]

----------------------------------------------------------------------------
(* The components beside the endpoints, before any of them is used *)
InitAside ==
    /\ proxy_cache = <<>>
    /\ md = <<>>
    /\ token_cache = <<>>
    /\ optimizer = <<>>
    /\ limiter = <<>>
    /\ jsonld = <<>>
    /\ calls = <<>>

InitWorld(w) ==
    /\ world = w
    /\ now = 0
    /\ ticks = 0
    /\ started_count = 0
    /\ extraction_cache = EmptyCache
    /\ req = [r \in Slots |-> IdleRequest]
    /\ sanitizer = IdleSanitizer
    /\ proxy = IdleProxy
    /\ InitAside

Init == InitWorld("pipeline")

InitCache == InitWorld("cache")

InitConcurrent == InitWorld("concurrent")

(* Time passes while handlers wait; asyncio.sleep(1) wakes its handler when  *)
(* the second is over, and httpx refuses a data: URL without waiting.        *)
Tick(d) ==
    /\ ticks < TickLimit
    /\ \A r \in Slots : req[r].pc = "sleep" => now + d - req[r].started <= SLEEP_DELAY
    /\ ~(proxy.pc = "fetch" /\ proxy.scheme = "data")
    /\ now' = now + d
    /\ ticks' = ticks + 1
    /\ UNCHANGED <<aside, sanitizer, proxy, world, started_count, extraction_cache, req>>

----------------------------------------------------------------------------
(* Request steps *)

Set(r, nx) ==
    /\ req' = [req EXCEPT ![r] = nx.rq]
    /\ extraction_cache' = nx.cache

Running(r, pc) ==
    /\ req[r].pc = pc
    /\ now - req[r].started < REQUEST_TIMEOUT

(* What the cache held for the url when the request began; the strategies the *)
(* request has tried.  Kept where the properties read them.                  *)
Held(c, u) ==
    IF world = "concurrent" THEN EmptyCache ELSE [x \in (DOMAIN c) \cap {u} |-> c[x]]

Log(rq, a) == IF Rich THEN [rq EXCEPT !.tried = Append(@, a)] ELSE rq

(* extract_content lines 56-74 and extract_markdown lines 429-449: cleanup, *)
(* cache check, then the await of asyncio.sleep(1).                         *)
Start(r, k, u) ==
    /\ r \in ActiveSlots
    /\ req[r].pc \in {"idle", "done"}
    /\ \A q \in ActiveSlots : q < r => req[q].pc \notin {"idle", "done"}
    /\ started_count < RequestLimit
    /\ started_count' = started_count + 1
    /\ LET c  == cleanup_cache(extraction_cache, now)
           rq == [IdleRequest EXCEPT !.id = started_count + 1, !.kind = k, !.url = u,
                      !.started = now,
                      !.held = Held(extraction_cache, u)]
       IN  IF CacheHit(c, u, now)
           THEN Set(r, [rq |-> Return(rq, "cache", c[u].data,
                                       IF k = "extract" THEN c[u].data
                                       ELSE MarkdownCached(u, c[u].data)),
                        cache |-> c])
           ELSE Set(r, [rq |-> [rq EXCEPT !.pc = "sleep"], cache |-> c])
    /\ UNCHANGED <<aside, sanitizer, proxy, world, now, ticks>>

(* lines 77-82, then 161-216 when the download parsed *)
Download(r) ==
    /\ Running(r, "sleep")
    /\ now - req[r].started >= SLEEP_DELAY
    /\ \E o \in DownloadOutcomes, e \in Env :
        IF o.ok
        THEN Set(r, BuildAndFallback(req[r], o.art, e, extraction_cache, now))
        ELSE Set(r, [rq |-> [req[r] EXCEPT !.pc = "refetch"], cache |-> extraction_cache])
    /\ UNCHANGED <<aside, sanitizer, proxy, world, now, ticks, started_count>>

(* lines 83-159, then 161-216: the re-fetch with a browser User-Agent, the *)
(* third-party extractors and the stale cache read                         *)
Reparsed(o, p) ==
    IF o.ok /\ o.len > 0
    THEN [text |-> p.text, title |-> p.title, html |-> o.len, top_node |-> p.top_node,
          by |-> "refetch"]
    ELSE NoArticle

ThirdParty(art, tp) ==
    IF art.text = 0 /\ art.title = "" /\ tp > 0
    THEN [art EXCEPT !.text = tp, !.by = "third_party"]
    ELSE art

RefetchLog(rq, o, a1, a2) ==
    LET l1 == Log(rq, Attempt("refetch", IF ~o.ok THEN "raise"
                                         ELSE IF a1.text > 0 \/ a1.title # "" THEN "content"
                                         ELSE "nothing"))
    IN  IF a1.text = 0 /\ a1.title = ""
        THEN Log(l1, Attempt("third_party", IF a2.text > 0 THEN "content" ELSE "nothing"))
        ELSE l1

ServeStale(rq, art, c, t) == art.text = 0 /\ StaleHit(c, rq.url, t)

Refetch(r) ==
    /\ Running(r, "refetch")
    /\ \E o \in FetchOutcomes, p \in ReparseOutcomes, tp \in ThirdPartyTexts, e \in Env :
        LET a1 == Reparsed(o, p)
            a2 == ThirdParty(a1, tp)
            rq == RefetchLog(req[r], o, a1, a2)
        IN  IF ServeStale(rq, a2, extraction_cache, now)
            THEN Set(r, [rq |-> ExtractReturn(rq, "stale", extraction_cache[rq.url].data, now),
                         cache |-> extraction_cache])
            ELSE Set(r, BuildAndFallback(rq, a2, e, extraction_cache, now))
    /\ UNCHANGED <<aside, sanitizer, proxy, world, now, ticks, started_count>>

(* lines 203-216 and 340-341: the raw fetch inside the fallback block *)
RawFetch(r) ==
    /\ Running(r, "rawfetch")
    /\ \E o \in FetchOutcomes, e \in Env :
        LET rq == Log(req[r], Attempt("rawfetch", IF ~o.ok THEN "raise"
                                                  ELSE IF o.len > 0 THEN "html" ELSE "nothing"))
        IN  IF o.ok
            THEN Set(r, AfterRaw(rq, rq.article, rq.source_html, o.len, e, extraction_cache, now))
            ELSE Set(r, PlaywrightCheck(rq, rq.article, rq.source_html, e, extraction_cache, now))
    /\ UNCHANGED <<aside, sanitizer, proxy, world, now, ticks, started_count>>

(* lines 256-281: what the AMP response yields *)
AmpSource(src, o) ==
    IF o.ok /\ o.text > 0 /\ o.node > NODE_MIN_HTML THEN [by |-> "amp", len |-> o.node]
    ELSE IF o.ok /\ o.text > AMP_RAW_MIN THEN [by |-> "amp", len |-> o.text]
    ELSE src

(* lines 286-307: the selector loop starts from found = False *)
SelectorSource(src, s) ==
    IF s.len > NODE_MIN_HTML THEN [by |-> "selectors", len |-> s.len] ELSE src

(* lines 309-338 *)
JsonLdSource(src, body) ==
    IF body > 0 THEN [by |-> "jsonld", len |-> JSONLD_WRAPPER + body] ELSE src

Outcome(before, after, raised) ==
    IF raised THEN "raise" ELSE IF after # before THEN "content" ELSE "nothing"

AfterAmp(rq, o, s, body) ==
    LET src0 == rq.source_html
        src1 == AmpSource(src0, o)
        l1   == Log(rq, Attempt("amp", Outcome(src0, src1, ~o.ok)))
        src2 == IF s.ok THEN SelectorSource(src1, s) ELSE src1
        l2   == Log(l1, Attempt("selectors", Outcome(src1, src2, ~s.ok)))
        found == s.ok /\ src2 # src1
        src3 == IF s.ok /\ ~found THEN JsonLdSource(src2, body) ELSE src2
        l3   == IF s.ok /\ ~found THEN Log(l2, Attempt("jsonld", Outcome(src2, src3, FALSE))) ELSE l2
    IN  [l3 EXCEPT !.source_html = src3]

AmpFetch(r) ==
    /\ Running(r, "ampfetch")
    /\ \E o \in AmpOutcomes, s \in SelectorOutcomes, body \in JsonLdBodies, e \in Env :
        LET rq == AfterAmp(req[r], o, s, body)
        IN  Set(r, PlaywrightCheck(rq, rq.article, rq.source_html, e, extraction_cache, now))
    /\ UNCHANGED <<aside, sanitizer, proxy, world, now, ticks, started_count>>

(* lines 357-358: start the driver, launch the browser *)
PwLaunch(r) ==
    /\ Running(r, "pw_launch")
    /\ \E o \in LaunchOutcomes, e \in Env :
        LET rq == req[r]
            failed == Log(rq, Attempt("playwright", "raise"))
        IN  CASE o = "ok" ->
                   Set(r, [rq |-> [rq EXCEPT !.pc = "pw_render", !.driver = "started",
                                             !.browser = "open"],
                           cache |-> extraction_cache])
              [] o = "launch_raises" ->
                   Set(r, Finish([failed EXCEPT !.driver = "started"], rq.article,
                                 rq.source_html, e, extraction_cache, now))
              [] o = "start_raises" ->
                   Set(r, Finish(failed, rq.article, rq.source_html, e, extraction_cache, now))
    /\ UNCHANGED <<aside, sanitizer, proxy, world, now, ticks, started_count>>

(* lines 359-362: new_context, new_page, goto, content *)
PwRender(r) ==
    /\ Running(r, "pw_render")
    /\ \E o \in RenderOutcomes, e \in Env :
        LET rq == req[r]
        IN  IF o.ok
            THEN Set(r, [rq |-> [rq EXCEPT !.pc = "pw_close", !.rendered = o.len],
                         cache |-> extraction_cache])
            ELSE Set(r, Finish(Log(rq, Attempt("playwright", "raise")), rq.article,
                               rq.source_html, e, extraction_cache, now))
    /\ UNCHANGED <<aside, sanitizer, proxy, world, now, ticks, started_count>>

(* lines 366-378: what the rendered page yields *)
RenderedSource(src, rendered, n) ==
    IF rendered > RENDERED_MIN
    THEN IF ~n.ok THEN [by |-> "playwright", len |-> rendered]
         ELSE IF n.len > NODE_MIN_HTML THEN [by |-> "playwright", len |-> n.len]
         ELSE src
    ELSE src

CloseBrowser(rq) == [rq EXCEPT !.browser = "closed", !.driver = "stopped"]

(* lines 363-378: close, stop, then read the rendered page *)
PwClose(r) ==
    /\ Running(r, "pw_close")
    /\ \E closed \in CloseOutcomes, n \in RenderedNodes, e \in Env :
        LET rq == req[r]
            src == RenderedSource(rq.source_html, rq.rendered, n)
        IN  IF closed
            THEN Set(r, Finish(Log(CloseBrowser(rq),
                                   Attempt("playwright", Outcome(rq.source_html, src, FALSE))),
                               rq.article, src, e, extraction_cache, now))
            ELSE Set(r, Finish(Log(rq, Attempt("playwright", "raise")), rq.article,
                               rq.source_html, e, extraction_cache, now))
    /\ UNCHANGED <<aside, sanitizer, proxy, world, now, ticks, started_count>>

(* main.py lines 69-73: asyncio.wait_for cancels the handler at its await *)
Timeout(r) ==
    /\ req[r].pc \in AwaitPcs
    /\ now - req[r].started >= REQUEST_TIMEOUT
    /\ req' = [req EXCEPT ![r] = [@ EXCEPT !.pc = "done", !.path = "timeout",
                                           !.response = [status |-> 504],
                                           !.article = NoArticle, !.source_html = NoFragment,
                                           !.rendered = 0]]
    /\ UNCHANGED <<aside, sanitizer, proxy, world, now, ticks, started_count, extraction_cache>>

Next ==
    \/ \E d \in Deltas : Tick(d)
    \/ \E r \in Slots, k \in WorldKinds, u \in URLS : Start(r, k, u)
    \/ \E r \in Slots : Download(r)
    \/ \E r \in Slots : Refetch(r)
    \/ \E r \in Slots : RawFetch(r)
    \/ \E r \in Slots : AmpFetch(r)
    \/ \E r \in Slots : PwLaunch(r)
    \/ \E r \in Slots : PwRender(r)
    \/ \E r \in Slots : PwClose(r)
    \/ \E r \in Slots : Timeout(r)

Spec == Init /\ [][Next]_vars

SpecCache == InitCache /\ [][Next]_vars

SpecConcurrent == InitConcurrent /\ [][Next]_vars

----------------------------------------------------------------------------
(* content_improved.py over services/content_extraction_service.py *)

InitImproved == InitWorld("improved")

(* What the GET of the page and readability's parse give: ok is FALSE when   *)
(* the request, raise_for_status or parse raises; readable is the length of  *)
(* article.content, fallback the length of what _fallback_extraction returns,*)
(* text the length of the text left by _strip_html.                          *)
ServiceResponses ==
    [ok : BOOLEAN, readable : {0, 60, 150}, fallback : {0, 23, 60, 300},
     text : {0, 2}, title : {"", "T"}, aclose_ok : BOOLEAN]

ServiceFailure ==
    [title |-> "", content |-> 0, reader_html |-> [by |-> "none", len |-> 0, clean |-> FALSE],
     markdown |-> 0, success |-> FALSE]

ReadableContent(o) == IF o.readable < READABLE_MIN THEN o.fallback ELSE o.readable

ServiceSuccess(readable) == readable > SERVICE_SUCCESS_MIN

ServiceResult(o) ==
    IF ~o.ok
    THEN ServiceFailure
    ELSE LET readable == ReadableContent(o)
         IN  [title |-> IF o.title = "" THEN "Untitled" ELSE o.title,
              content |-> IF readable = 0 THEN 0 ELSE o.text,
              reader_html |-> [by |-> "service", len |-> readable, clean |-> FALSE],
              markdown |-> readable,
              success |-> ServiceSuccess(readable)]

(* extract_content lines 52-62 and extract_markdown lines 97-114 *)
ImprovedStart(r, k, u) ==
    /\ world = "improved"
    /\ r \in ActiveSlots
    /\ req[r].pc \in {"idle", "done"}
    /\ started_count < RequestLimit
    /\ started_count' = started_count + 1
    /\ LET c  == cleanup_cache(extraction_cache, now)
           rq == [IdleRequest EXCEPT !.id = started_count + 1, !.kind = k, !.url = u,
                      !.started = now,
                      !.held = Held(extraction_cache, u)]
       IN  IF CacheHit(c, u, now)
           THEN Set(r, [rq |-> Return(rq, "cache", c[u].data,
                                       IF k = "extract" THEN c[u].data
                                       ELSE MarkdownCached(u, c[u].data)),
                        cache |-> c])
           ELSE Set(r, [rq |-> [rq EXCEPT !.pc = "service_get"], cache |-> c])
    /\ UNCHANGED <<aside, sanitizer, proxy, world, now, ticks>>

(* the service's extract_content, then the router's lines 66-89 *)
ServiceGet(r) ==
    /\ req[r].pc = "service_get"
    /\ \E o \in ServiceResponses :
          LET rq == req[r]
              result == ServiceResult(o)
          IN  IF ~o.aclose_ok
              THEN Set(r, [rq |-> ExtractReturn(rq, "error", ServiceFailure, now),
                           cache |-> extraction_cache])
              ELSE Set(r, [rq |-> ExtractReturn(rq, "fresh", result, now),
                           cache |-> IF result.success
                                     THEN CacheWrite(extraction_cache, rq.url, result, now)
                                     ELSE extraction_cache])
    /\ UNCHANGED <<aside, sanitizer, proxy, world, now, ticks, started_count>>

NextImproved ==
    \/ \E d \in Deltas : Tick(d)
    \/ \E r \in Slots, k \in Kinds, u \in URLS : ImprovedStart(r, k, u)
    \/ \E r \in Slots : ServiceGet(r)

SpecImproved == InitImproved /\ [][NextImproved]_vars

----------------------------------------------------------------------------
(* utils/html_to_markdown.py: sanitize_html_for_reader on its own, applied   *)
(* once and again to its own output, and as extract_content calls it.        *)

InitSanitize ==
    /\ world = "sanitize"
    /\ now = 0
    /\ ticks = 0
    /\ started_count = 0
    /\ extraction_cache = EmptyCache
    /\ req = [r \in Slots |-> IdleRequest]
    /\ proxy = IdleProxy
    /\ InitAside
    /\ sanitizer \in [pc : {"new"}, html : Docs, base : BOOLEAN, keep : BOOLEAN,
                      once : {NoSanitized}, twice : {NoSanitized}, reader : {EmptyDoc}]

SanitizeFrame == UNCHANGED <<aside, world, now, ticks, started_count, extraction_cache, req, proxy>>

SanitizeOnce(w) ==
    /\ sanitizer.pc = "new"
    /\ sanitizer' = [sanitizer EXCEPT
                        !.pc = "once",
                        !.once = sanitize_html_for_reader(sanitizer.html, sanitizer.base,
                                                          sanitizer.keep, w)]
    /\ SanitizeFrame

SanitizeTwice(w) ==
    /\ sanitizer.pc = "once"
    /\ ~sanitizer.once.raised
    /\ sanitizer' = [sanitizer EXCEPT
                        !.pc = "twice",
                        !.twice = sanitize_html_for_reader(sanitizer.once.doc, sanitizer.base,
                                                           sanitizer.keep, w)]
    /\ SanitizeFrame

(* extract_content lines 388-392 on a fragment source_html *)
ReaderHtmlStep(w) ==
    /\ sanitizer.pc = "new"
    /\ sanitizer.base /\ sanitizer.keep
    /\ sanitizer' = [sanitizer EXCEPT !.pc = "reader",
                                      !.reader = ReaderDoc(sanitizer.html, w)]
    /\ SanitizeFrame

NextSanitize ==
    \/ \E w \in BOOLEAN : SanitizeOnce(w)
    \/ \E w \in BOOLEAN : SanitizeTwice(w)
    \/ \E w \in BOOLEAN : ReaderHtmlStep(w)

SpecSanitize == InitSanitize /\ [][NextSanitize]_vars

----------------------------------------------------------------------------
(* proxy_content and proxy_image, of content.py behind the TimeoutMiddleware *)
(* and of content_improved.py                                                *)

InitProxy == InitWorld("proxy")

ProxyFrame == UNCHANGED <<aside, world, ticks, extraction_cache, req, sanitizer>>

ProxyStart(rt, ep, sc) ==
    /\ world = "proxy"
    /\ proxy.pc \in {"idle", "done"}
    /\ started_count < RequestLimit
    /\ started_count' = started_count + 1
    /\ proxy' = [IdleProxy EXCEPT !.pc = "fetch", !.router = rt, !.endpoint = ep,
                                  !.scheme = sc, !.started = now]
    /\ UNCHANGED now
    /\ ProxyFrame

(* proxy_content: one identity, the answer or HTTPException 400 *)
ProxyContentFetch ==
    /\ proxy.pc = "fetch"
    /\ proxy.endpoint = "proxy"
    /\ \E res \in FetchResults(proxy.scheme) :
          proxy' = [proxy EXCEPT
                       !.pc = "done",
                       !.tried = Append(@, [ua |-> 1, res |-> res]),
                       !.last_error = IF res.ok THEN @ ELSE res,
                       !.response = IF res.ok THEN ProxyOk(1) ELSE ProxyError("content", res)]
    /\ UNCHANGED <<now, started_count>>
    /\ ProxyFrame

(* proxy_image: one turn of the loop over user_agents, and what follows the  *)
(* loop when this was its last turn                                          *)
ProxyImageFetch ==
    /\ proxy.pc = "fetch"
    /\ proxy.endpoint = "image"
    /\ \E res \in FetchResults(proxy.scheme) :
          LET i    == Len(proxy.tried) + 1
              last == IF res.ok THEN proxy.last_error ELSE res
              p    == [proxy EXCEPT !.tried = Append(@, [ua |-> i, res |-> res]),
                                    !.last_error = last]
          IN  proxy' = IF Accepts(proxy.router, res)
                       THEN [p EXCEPT !.pc = "done", !.response = ProxyOk(i)]
                       ELSE IF Exhausted(i)
                            THEN [p EXCEPT !.pc = "done",
                                           !.response = ProxyError("image", last)]
                            ELSE p
    /\ UNCHANGED <<now, started_count>>
    /\ ProxyFrame

(* main.py lines 69-73, around the mounted router *)
ProxyTimeout ==
    /\ proxy.pc = "fetch"
    /\ proxy.router = "content"
    /\ now - proxy.started >= REQUEST_TIMEOUT
    /\ proxy' = [proxy EXCEPT !.pc = "done", !.response = ProxyTimedOut]
    /\ UNCHANGED <<now, started_count>>
    /\ ProxyFrame

NextProxy ==
    \/ \E d \in Deltas : Tick(d)
    \/ \E rt \in Routers, ep \in Endpoints, sc \in Schemes : ProxyStart(rt, ep, sc)
    \/ ProxyContentFetch
    \/ ProxyImageFetch
    \/ ProxyTimeout

SpecProxy == InitProxy /\ [][NextProxy]_vars

----------------------------------------------------------------------------
(* The proxy cache: entries [key, size, cachedAt, lastAccessedAt], sizes in  *)
(* megabytes.  At the start of a request the entries past their TTL are     *)
(* purged; then, if the bytes held exceed the ceiling, entries are evicted   *)
(* oldest lastAccessedAt first until at most 80% of the ceiling is held.     *)

PROXY_CACHE_TTL == 7200

PROXY_CACHE_CEILING == 50

EVICT_TARGET_PERCENT == 80

MaxProxyCacheTicks == 3

MaxProxyCacheRequests == 5

ProxyCacheKeys == {1, 2, 3}

ProxyCacheSizes == {20, 30}

ProxyCacheDeltas == {1, PROXY_CACHE_TTL}

RECURSIVE Usage(_)
Usage(S) ==
    IF S = {} THEN 0
    ELSE LET e == CHOOSE x \in S : TRUE IN e.size + Usage(S \ {e})

PurgeExpired(S, t) == {e \in S : t - e.cachedAt < PROXY_CACHE_TTL}

OldestCached(S) ==
    CHOOSE e \in S : \A f \in S :
        \/ e.cachedAt < f.cachedAt
        \/ e.cachedAt = f.cachedAt /\ e.key <= f.key

Oldest(S) ==
    CHOOSE e \in S : \A f \in S :
        \/ e.lastAccessedAt < f.lastAccessedAt
        \/ e.lastAccessedAt = f.lastAccessedAt /\ e.key <= f.key

AtTarget(S) == Usage(S) * 100 <= EVICT_TARGET_PERCENT * PROXY_CACHE_CEILING

RECURSIVE EvictLRU(_)
EvictLRU(S) == IF AtTarget(S) THEN S ELSE EvictLRU(S \ {Oldest(S)})

Evict(S) == IF Usage(S) > PROXY_CACHE_CEILING THEN EvictLRU(S) ELSE S

IdleProxyCache == [entries |-> {}, purged |-> {}, kept |-> {}]

InitProxyCache ==
    /\ world = "proxycache"
    /\ now = 0
    /\ ticks = 0
    /\ started_count = 0
    /\ extraction_cache = EmptyCache
    /\ req = [r \in Slots |-> IdleRequest]
    /\ sanitizer = IdleSanitizer
    /\ proxy = IdleProxy
    /\ proxy_cache = IdleProxyCache
    /\ md = <<>>
    /\ token_cache = <<>>
    /\ optimizer = <<>>
    /\ limiter = <<>>
    /\ jsonld = <<>>
    /\ calls = <<>>

ProxyCacheFrame ==
    UNCHANGED <<world, extraction_cache, req, sanitizer, proxy,
                md, token_cache, optimizer, limiter, jsonld, calls>>

ProxyCacheTick(d) ==
    /\ ticks < MaxProxyCacheTicks
    /\ now' = now + d
    /\ ticks' = ticks + 1
    /\ UNCHANGED <<started_count, proxy_cache>>
    /\ ProxyCacheFrame

(* A proxy request for key k whose upstream body has size bytes: the purge   *)
(* and the eviction, then the lookup, and the fetch and the write on a miss  *)
ProxyCacheRequest(k, size) ==
    /\ started_count < MaxProxyCacheRequests
    /\ started_count' = started_count + 1
    /\ LET purged == PurgeExpired(proxy_cache.entries, now)
           kept   == Evict(purged)
           hit    == {e \in kept : e.key = k}
           entry  == [key |-> k, size |-> size, cachedAt |-> now, lastAccessedAt |-> now]
       IN  proxy_cache' =
             [entries |-> IF hit # {}
                          THEN (kept \ hit) \cup {[e EXCEPT !.lastAccessedAt = now] : e \in hit}
                          ELSE kept \cup {entry},
              purged |-> purged,
              kept |-> kept]
    /\ UNCHANGED <<now, ticks>>
    /\ ProxyCacheFrame

NextProxyCache ==
    \/ \E d \in ProxyCacheDeltas : ProxyCacheTick(d)
    \/ \E k \in ProxyCacheKeys, size \in ProxyCacheSizes : ProxyCacheRequest(k, size)

SpecProxyCache == InitProxyCache /\ [][NextProxyCache]_vars

----------------------------------------------------------------------------
(* Markdown: html_to_markdown of utils/html_to_markdown.py as content.py     *)
(* returns it, and _enhance_markdown_formatting with _fix_link_formatting of *)
(* services/content_extraction_service.py.  A Markdown text is a sequence of *)
(* lines.  A text line holds the words first..last of its paragraph, has     *)
(* chars characters and starts with plain text, with "[" or with "![" (a     *)
(* note "[1] ...", or a link or an image and the sentence after it).  A      *)
(* link line holds one link or image: the text between its brackets is a     *)
(* sequence of characters, url is its length, wrap is what the repair put    *)
(* around the link.  A joined text is a sequence of lines and NL.            *)

LONG_LINE == 100

WORDS_MIN == 15

CHUNK_WORDS == 15

MaxLines == 5

MaxWords == 31

MaxLinkText == 5

Blank == [kind |-> "blank"]

NL == [kind |-> "nl"]

Heading == [kind |-> "heading"]

ListItem == [kind |-> "list"]

TextLine(first, last, chars, lead) ==
    [kind |-> "text", first |-> first, last |-> last, chars |-> chars, lead |-> lead]

LinkLine(image, wrap, text, url) ==
    [kind |-> "link", image |-> image, wrap |-> wrap, text |-> text, url |-> url]

PlainLine(text) == [kind |-> "plain", text |-> text]

Para == TextLine(1, 3, 20, "plain")

EmptyLink == LinkLine(FALSE, <<>>, <<>>, 1)

LinkChars == {"*", "_", "a"}

LinkTexts == UNION {[1..n -> LinkChars] : n \in 0..MaxLinkText}

RawDocs ==
    UNION {[1..n -> {Blank, Heading, Para, ListItem, EmptyLink}] : n \in 1..MaxLines}
    \cup {<<TextLine(1, n, c, l)>> : n \in 1..MaxWords, c \in {LONG_LINE, LONG_LINE + 1},
                                     l \in {"plain", "bracket", "image"}}
    \cup {<<LinkLine(i, <<>>, t, u)>> : i \in BOOLEAN, t \in LinkTexts, u \in {0, 1}}

(* content.py line 385 with html_to_markdown lines 19-20: what markdownify   *)
(* gave is the markdown of the response                                      *)
markdown_value(raw) == raw

(* lines 473-481: chunks of 15 words, the rest in a last chunk *)
RECURSIVE ChunksOfSixteen(_, _)
ChunksOfSixteen(first, last) ==
    IF last - first < CHUNK_WORDS + 1
    THEN <<TextLine(first, last, 0, "plain")>>
    ELSE <<TextLine(first, first + CHUNK_WORDS, 0, "plain")>>
         \o ChunksOfSixteen(first + CHUNK_WORDS + 1, last)

RECURSIVE Chunks(_, _)
Chunks(first, last) ==
    IF last - first < CHUNK_WORDS
    THEN <<TextLine(first, last, 0, "plain")>>
    ELSE <<TextLine(first, first + CHUNK_WORDS - 1, 0, "plain")>>
         \o Chunks(first + CHUNK_WORDS, last)

(* lines 484-487 *)
RECURSIVE Spaced(_)
Spaced(chunks) ==
    IF Len(chunks) <= 1 THEN chunks
    ELSE <<Head(chunks), Blank>> \o Spaced(Tail(chunks))

(* lines 468 and 471 *)
Reflows(line) ==
    /\ line.kind = "text"
    /\ line.chars > LONG_LINE
    /\ line.lead = "plain"
    /\ line.last - line.first + 1 > WORDS_MIN

(* lines 424-491, the loop from line i on, enhanced_lines so far in acc *)
RECURSIVE EnhanceFrom(_, _, _)
EnhanceFrom(lines, i, acc) ==
    IF i > Len(lines) THEN acc
    ELSE LET line     == lines[i]
             prevText == acc # <<>> /\ acc[Len(acc)].kind # "blank"
             nextText == i + 1 <= Len(lines) /\ lines[i + 1].kind # "blank"
         IN  EnhanceFrom(lines, i + 1,
               CASE line.kind = "blank" -> Append(acc, Blank)
                 [] line.kind = "heading" ->
                      (IF prevText THEN Append(acc, Blank) ELSE acc)
                      \o <<line>> \o (IF nextText THEN <<Blank>> ELSE <<>>)
                 [] line.kind = "list" ->
                      (IF prevText /\ acc[Len(acc)].kind # "list"
                       THEN Append(acc, Blank) ELSE acc) \o <<line>>
                 [] Reflows(line) -> acc \o Spaced(Chunks(line.first, line.last))
                 [] OTHER -> Append(acc, line))

(* line 494 *)
RECURSIVE Join(_)
Join(lines) ==
    IF lines = <<>> THEN <<>>
    ELSE (IF Head(lines).kind = "blank" THEN <<>> ELSE <<Head(lines)>>)
         \o (IF Len(lines) > 1 THEN <<NL>> \o Join(Tail(lines)) ELSE <<>>)

RECURSIVE RunLen(_)
RunLen(s) == IF s # <<>> /\ Head(s) = NL THEN 1 + RunLen(Tail(s)) ELSE 0

(* line 495: every run of three or more newlines becomes two *)
RECURSIVE CollapseNewlines(_)
CollapseNewlines(s) ==
    IF s = <<>> THEN <<>>
    ELSE LET n == RunLen(s)
         IN  IF n = 0 THEN <<Head(s)>> \o CollapseNewlines(Tail(s))
             ELSE (IF n >= 3 THEN <<NL, NL>> ELSE SubSeq(s, 1, n))
                  \o CollapseNewlines(SubSeq(s, n + 1, Len(s)))

(* the first index from i on where s holds m, 0 when there is none *)
RECURSIVE NextAt(_, _, _)
NextAt(s, m, i) ==
    IF i > Len(s) THEN 0 ELSE IF s[i] = m THEN i ELSE NextAt(s, m, i + 1)

(* re.sub of m([^m]+)m by its group, lines 518 and 519 *)
RECURSIVE StripPairs(_, _)
StripPairs(s, m) ==
    IF s = <<>> THEN <<>>
    ELSE LET j == NextAt(s, m, 2)
         IN  IF Head(s) = m /\ j >= 3
             THEN SubSeq(s, 2, j - 1) \o StripPairs(SubSeq(s, j + 1, Len(s)), m)
             ELSE <<Head(s)>> \o StripPairs(Tail(s), m)

(* re.sub of \*\*([^*]+)\*\* by its group, line 520 *)
RECURSIVE StripBold(_)
StripBold(s) ==
    IF s = <<>> THEN <<>>
    ELSE LET j == NextAt(s, "*", 3)
         IN  IF /\ Len(s) >= 5 /\ s[1] = "*" /\ s[2] = "*"
                /\ j >= 4 /\ j + 1 <= Len(s) /\ s[j + 1] = "*"
             THEN SubSeq(s, 3, j - 1) \o StripBold(SubSeq(s, j + 2, Len(s)))
             ELSE <<Head(s)>> \o StripBold(Tail(s))

Has(s, m) == \E i \in 1..Len(s) : s[i] = m

(* lines 518-520 *)
CleanText(link_text) ==
    StripBold(StripPairs(StripPairs(link_text, "*"), "_"))

(* lines 523-531 *)
HoistedWrap(link_text) ==
    IF Has(link_text, "*") \/ Has(link_text, "_")
    THEN IF StripBold(link_text) # link_text THEN <<"*", "*">>
         ELSE IF StripPairs(link_text, "*") # link_text THEN <<"*">>
         ELSE IF StripPairs(link_text, "_") # link_text THEN <<"_">>
         ELSE <<>>
    ELSE <<>>

(* lines 513-544 on one link or image: what is left of it, nothing when the  *)
(* text and the "!" before it are both gone                                  *)
fix_formatted_links(l) ==
    IF l.text # <<>> /\ l.url > 0
    THEN <<LinkLine(l.image, HoistedWrap(l.text), CleanText(l.text), l.url)>>
    ELSE LET left == (IF l.image THEN <<"!">> ELSE <<>>) \o l.text
         IN  IF left = <<>> THEN <<>> ELSE <<PlainLine(left)>>

(* lines 534-544 over the joined text *)
RECURSIVE FixLinkFormatting(_)
FixLinkFormatting(s) ==
    IF s = <<>> THEN <<>>
    ELSE (IF Head(s).kind = "link" THEN fix_formatted_links(Head(s)) ELSE <<Head(s)>>)
         \o FixLinkFormatting(Tail(s))

(* str.strip, line 500 *)
RECURSIVE Strip(_)
Strip(s) ==
    IF s = <<>> THEN s
    ELSE IF Head(s) = NL THEN Strip(Tail(s))
    ELSE IF s[Len(s)] = NL THEN Strip(SubSeq(s, 1, Len(s) - 1))
    ELSE s

(* the lines of a joined text *)
RECURSIVE Split(_)
Split(s) ==
    LET j == NextAt(s, NL, 1)
    IN  IF j = 0 THEN <<IF s = <<>> THEN Blank ELSE s[1]>>
        ELSE <<IF j = 1 THEN Blank ELSE s[1]>> \o Split(SubSeq(s, j + 1, Len(s)))

(* lines 421-500 *)
EnhancedLines(raw) == EnhanceFrom(raw, 1, <<>>)

enhance_markdown_formatting(raw) ==
    Split(Strip(FixLinkFormatting(CollapseNewlines(Join(EnhancedLines(raw))))))

InitMarkdown ==
    /\ world = "markdown"
    /\ now = 0
    /\ ticks = 0
    /\ started_count = 0
    /\ extraction_cache = EmptyCache
    /\ req = [r \in Slots |-> IdleRequest]
    /\ sanitizer = IdleSanitizer
    /\ proxy = IdleProxy
    /\ proxy_cache = <<>>
    /\ md \in [pc : {"raw"}, raw : RawDocs, out : {<<>>}]
    /\ token_cache = <<>>
    /\ optimizer = <<>>
    /\ limiter = <<>>
    /\ jsonld = <<>>
    /\ calls = <<>>

MarkdownFrame ==
    UNCHANGED <<world, now, ticks, started_count, extraction_cache, req, sanitizer, proxy,
                proxy_cache, token_cache, optimizer, limiter, jsonld, calls>>

(* extract_content of content.py: the markdown of the response *)
MarkdownValue ==
    /\ md.pc = "raw"
    /\ md' = [md EXCEPT !.pc = "content", !.out = markdown_value(md.raw)]
    /\ MarkdownFrame

(* ContentExtractionService: the markdown after post-processing *)
EnhanceMarkdown ==
    /\ md.pc = "raw"
    /\ md' = [md EXCEPT !.pc = "service", !.out = enhance_markdown_formatting(md.raw)]
    /\ MarkdownFrame

NextMarkdown ==
    \/ MarkdownValue
    \/ EnhanceMarkdown

SpecMarkdown == InitMarkdown /\ [][NextMarkdown]_vars

----------------------------------------------------------------------------
(* core/security.py: decode_jwt_token over the module's token_cache.         *)
(* api/deps.py calls it from get_current_user, a plain def that FastAPI runs *)
(* in its thread pool, so calls overlap; one action is one access of a call  *)
(* to the dictionary, or its request to the auth provider.                   *)

cache_ttl == 300

TOKEN_CACHE_LIMIT == 1000

VALIDATE_TIMEOUT == 10

MaxJwtTicks == 2

MaxJwtCalls == 3

Threads == {1, 2}

Tokens == {"t1", "t2"}

JwtDeltas == {1, cache_ttl - 1}

(* what the auth provider answers: 200 with the user, another status, or no  *)
(* answer in 10 s                                                            *)
ProviderAnswers == {"200", "401", "timeout"}

(* line 17; the tokens of the model have different hashes *)
get_token_hash(token) == IF token = "t1" THEN 1 ELSE 2

NoEntry == [user |-> "", time |-> 0]

UserData(token) == [user |-> token, time |-> 0]

IdleCall ==
    [pc |-> "idle", token |-> "t1", current_time |-> 0, seen |-> "none",
     contacted |-> FALSE, wrote |-> FALSE, result |-> "none"]

InitJwt ==
    /\ world = "jwt"
    /\ now = 0
    /\ ticks = 0
    /\ started_count = 0
    /\ extraction_cache = EmptyCache
    /\ req = [r \in Slots |-> IdleRequest]
    /\ sanitizer = IdleSanitizer
    /\ proxy = IdleProxy
    /\ proxy_cache = <<>>
    /\ md = <<>>
    /\ token_cache = [h \in {} |-> NoEntry]
    /\ optimizer = <<>>
    /\ limiter = <<>>
    /\ jsonld = <<>>
    /\ calls = [th \in Threads |-> IdleCall]

JwtFrame ==
    UNCHANGED <<world, extraction_cache, req, sanitizer, proxy,
                proxy_cache, md, optimizer, limiter, jsonld>>

(* time passes between calls and while the provider is asked (timeout=10),   *)
(* not between two accesses of a call to the dictionary                      *)
JwtTick(d) ==
    /\ ticks < MaxJwtTicks
    /\ \A th \in Threads :
          \/ calls[th].pc \in {"idle", "done"}
          \/ calls[th].pc = "validate" /\ now + d - calls[th].current_time <= VALIDATE_TIMEOUT
    /\ now' = now + d
    /\ ticks' = ticks + 1
    /\ UNCHANGED <<started_count, token_cache, calls>>
    /\ JwtFrame

(* line 27 *)
Fresh(entry, current_time) == current_time - entry.time < cache_ttl

JwtAt(th, pc) == calls[th].pc = pc

JwtSet(th, call) == calls' = [calls EXCEPT ![th] = call]

(* lines 21-22 *)
JwtCall(th, token) ==
    /\ calls[th].pc \in {"idle", "done"}
    /\ \A other \in Threads : other < th => calls[other].pc # "idle"
    /\ started_count < MaxJwtCalls
    /\ started_count' = started_count + 1
    /\ JwtSet(th, [IdleCall EXCEPT !.pc = "check", !.token = token, !.current_time = now])
    /\ UNCHANGED <<now, ticks, token_cache>>
    /\ JwtFrame

(* line 25 *)
JwtCheck(th) ==
    /\ JwtAt(th, "check")
    /\ LET h    == get_token_hash(calls[th].token)
           held == h \in DOMAIN token_cache
       IN  JwtSet(th, [calls[th] EXCEPT
                         !.pc = IF held THEN "read" ELSE "validate",
                         !.seen = IF held THEN "held" ELSE "absent"])
    /\ UNCHANGED <<now, ticks, started_count, token_cache>>
    /\ JwtFrame

(* lines 26-29; the subscript raises KeyError when the entry is gone *)
JwtRead(th) ==
    /\ JwtAt(th, "read")
    /\ LET h == get_token_hash(calls[th].token)
       IN  JwtSet(th, IF h \notin DOMAIN token_cache
                      THEN [calls[th] EXCEPT !.pc = "done", !.seen = "gone",
                                             !.result = "KeyError"]
                      ELSE IF Fresh(token_cache[h], calls[th].current_time)
                           THEN [calls[th] EXCEPT !.pc = "done", !.seen = "fresh",
                                                  !.result = "cached"]
                           ELSE [calls[th] EXCEPT !.pc = "del", !.seen = "expired"])
    /\ UNCHANGED <<now, ticks, started_count, token_cache>>
    /\ JwtFrame

(* line 32; del raises KeyError when the entry is gone *)
JwtDel(th) ==
    /\ JwtAt(th, "del")
    /\ LET h == get_token_hash(calls[th].token)
       IN  IF h \notin DOMAIN token_cache
           THEN /\ JwtSet(th, [calls[th] EXCEPT !.pc = "done", !.result = "KeyError"])
                /\ UNCHANGED token_cache
           ELSE /\ JwtSet(th, [calls[th] EXCEPT !.pc = "validate"])
                /\ token_cache' = [k \in DOMAIN token_cache \ {h} |-> token_cache[k]]
    /\ UNCHANGED <<now, ticks, started_count>>
    /\ JwtFrame

(* lines 44-59 and 73-90 *)
JwtValidate(th, answer) ==
    /\ JwtAt(th, "validate")
    /\ JwtSet(th, CASE answer = "200" -> [calls[th] EXCEPT !.pc = "write", !.contacted = TRUE]
                    [] answer = "401" ->
                         [calls[th] EXCEPT !.pc = "done", !.contacted = TRUE, !.result = "401"]
                    [] answer = "timeout" ->
                         [calls[th] EXCEPT !.pc = "done", !.contacted = TRUE, !.result = "408"])
    /\ UNCHANGED <<now, ticks, started_count, token_cache>>
    /\ JwtFrame

(* lines 65-68 *)
CleanOld(c, current_time) ==
    IF Cardinality(DOMAIN c) > TOKEN_CACHE_LIMIT
    THEN [k \in {h \in DOMAIN c : ~(current_time - c[h].time > cache_ttl)} |-> c[k]]
    ELSE c

(* lines 62-71 *)
JwtWrite(th) ==
    /\ JwtAt(th, "write")
    /\ LET h     == get_token_hash(calls[th].token)
           entry == [UserData(calls[th].token) EXCEPT !.time = calls[th].current_time]
           c     == [k \in DOMAIN token_cache \cup {h} |->
                        IF k = h THEN entry ELSE token_cache[k]]
       IN  token_cache' = CleanOld(c, calls[th].current_time)
    /\ JwtSet(th, [calls[th] EXCEPT !.pc = "done", !.wrote = TRUE, !.result = "validated"])
    /\ UNCHANGED <<now, ticks, started_count>>
    /\ JwtFrame

NextJwt ==
    \/ \E d \in JwtDeltas : JwtTick(d)
    \/ \E th \in Threads, token \in Tokens : JwtCall(th, token)
    \/ \E th \in Threads : JwtCheck(th)
    \/ \E th \in Threads : JwtRead(th)
    \/ \E th \in Threads : JwtDel(th)
    \/ \E th \in Threads, answer \in ProviderAnswers : JwtValidate(th, answer)
    \/ \E th \in Threads : JwtWrite(th)

SpecJwt == InitJwt /\ [][NextJwt]_vars

----------------------------------------------------------------------------
(* core/db_optimizer.py: DatabaseOptimizer.execute_with_limit, called by the *)
(* services inside request handlers, which main.py's TimeoutMiddleware       *)
(* cancels after REQUEST_TIMEOUT seconds.                                    *)

MAX_CONCURRENT_QUERIES == 20

QUERY_TIMEOUT == 30

MaxDbTicks == 3

MaxDbCalls == 4

DbSlots == {1, 2}

DbDeltas == {1, QUERY_TIMEOUT - 1}

NewOptimizer ==
    [semaphore |-> MAX_CONCURRENT_QUERIES,
     stats |-> [total_queries |-> 0, successful_queries |-> 0,
                failed_queries |-> 0, timeout_queries |-> 0],
     response_times |-> 0]

IdleQuery == [pc |-> "idle", start_time |-> 0, acquired |-> 0, ended |-> "none"]

InitDb ==
    /\ world = "db"
    /\ now = 0
    /\ ticks = 0
    /\ started_count = 0
    /\ extraction_cache = EmptyCache
    /\ req = [r \in Slots |-> IdleRequest]
    /\ sanitizer = IdleSanitizer
    /\ proxy = IdleProxy
    /\ proxy_cache = <<>>
    /\ md = <<>>
    /\ token_cache = <<>>
    /\ optimizer = NewOptimizer
    /\ limiter = <<>>
    /\ jsonld = <<>>
    /\ calls = [c \in DbSlots |-> IdleQuery]

DbFrame ==
    UNCHANGED <<world, extraction_cache, req, sanitizer, proxy,
                proxy_cache, md, token_cache, limiter, jsonld>>

(* a free semaphore is acquired at once; a query that is running ends by     *)
(* QUERY_TIMEOUT, a request by REQUEST_TIMEOUT                               *)
DbTick(d) ==
    /\ ticks < MaxDbTicks
    /\ \A c \in DbSlots :
          /\ calls[c].pc = "acquire" => optimizer.semaphore = 0
          /\ calls[c].pc = "run" => now + d - calls[c].acquired <= QUERY_TIMEOUT
          /\ calls[c].pc \in {"acquire", "run"} => now + d - calls[c].start_time <= REQUEST_TIMEOUT
    /\ now' = now + d
    /\ ticks' = ticks + 1
    /\ UNCHANGED <<started_count, optimizer, calls>>
    /\ DbFrame

Count(key) == optimizer' = [optimizer EXCEPT !.stats[key] = @ + 1]

(* __aexit__ of the semaphore, on every way out of the with block *)
Released(o) == [o EXCEPT !.semaphore = @ + 1]

(* lines 30-31 *)
DbCall(c) ==
    /\ calls[c].pc \in {"idle", "done"}
    /\ \A other \in DbSlots : other < c => calls[other].pc # "idle"
    /\ started_count < MaxDbCalls
    /\ started_count' = started_count + 1
    /\ Count("total_queries")
    /\ calls' = [calls EXCEPT ![c] = [IdleQuery EXCEPT !.pc = "acquire", !.start_time = now]]
    /\ UNCHANGED <<now, ticks>>
    /\ DbFrame

(* line 34 *)
DbAcquire(c) ==
    /\ calls[c].pc = "acquire"
    /\ optimizer.semaphore > 0
    /\ optimizer' = [optimizer EXCEPT !.semaphore = @ - 1]
    /\ calls' = [calls EXCEPT ![c] = [@ EXCEPT !.pc = "run", !.acquired = now]]
    /\ UNCHANGED <<now, ticks, started_count>>
    /\ DbFrame

DbEnd(c, how) == calls' = [calls EXCEPT ![c] = [@ EXCEPT !.pc = "done", !.ended = how]]

(* lines 36-53 *)
DbSucceed(c) ==
    /\ calls[c].pc = "run"
    /\ optimizer' = [Released(optimizer) EXCEPT
                        !.stats.successful_queries = @ + 1,
                        !.response_times = IF @ < 100 THEN @ + 1 ELSE 100]
    /\ DbEnd(c, "success")
    /\ UNCHANGED <<now, ticks, started_count>>
    /\ DbFrame

(* lines 59-62 *)
DbFail(c) ==
    /\ calls[c].pc = "run"
    /\ optimizer' = [Released(optimizer) EXCEPT !.stats.failed_queries = @ + 1]
    /\ DbEnd(c, "exception")
    /\ UNCHANGED <<now, ticks, started_count>>
    /\ DbFrame

(* lines 36-39 and 55-58 *)
DbTimeout(c) ==
    /\ calls[c].pc = "run"
    /\ now - calls[c].acquired >= QUERY_TIMEOUT
    /\ optimizer' = [Released(optimizer) EXCEPT !.stats.timeout_queries = @ + 1]
    /\ DbEnd(c, "timeout")
    /\ UNCHANGED <<now, ticks, started_count>>
    /\ DbFrame

(* main.py lines 69-73: the request is cancelled; CancelledError is not an  *)
(* Exception, so neither except clause of lines 55-62 runs                   *)
DbCancel(c) ==
    /\ calls[c].pc \in {"acquire", "run"}
    /\ now - calls[c].start_time >= REQUEST_TIMEOUT
    /\ optimizer' = IF calls[c].pc = "run" THEN Released(optimizer) ELSE optimizer
    /\ DbEnd(c, "cancelled")
    /\ UNCHANGED <<now, ticks, started_count>>
    /\ DbFrame

NextDb ==
    \/ \E d \in DbDeltas : DbTick(d)
    \/ \E c \in DbSlots : DbCall(c)
    \/ \E c \in DbSlots : DbAcquire(c)
    \/ \E c \in DbSlots : DbSucceed(c)
    \/ \E c \in DbSlots : DbFail(c)
    \/ \E c \in DbSlots : DbTimeout(c)
    \/ \E c \in DbSlots : DbCancel(c)

SpecDb == InitDb /\ [][NextDb]_vars

----------------------------------------------------------------------------
(* content.py lines 309-338 on their own: the scan of a page's JSON-LD       *)
(* scripts.  A script is [ok, items]: whether json.loads accepts its text,   *)
(* and its items, the @graph entries after the top-level ones as lines       *)
(* 318-323 append them.  An item says whether its @type contains "Article",  *)
(* whether it has a headline, and where its body text comes from.            *)

MaxScripts == 2

MaxItems == 2

LdItems == [typ : BOOLEAN, headline : BOOLEAN, body : {"none", "articleBody", "description"}]

LdScripts ==
    {[ok |-> FALSE, items |-> <<>>]}
    \cup {[ok |-> TRUE, items |-> its] : its \in UNION {[1..n -> LdItems] : n \in 0..MaxItems}}

LdPages == UNION {[1..n -> LdScripts] : n \in 0..MaxScripts}

NoLdFragment == [script |-> 0, item |-> 0, title |-> "none", body |-> "none"]

(* line 328 *)
Qualifies(item) == item.typ \/ item.body = "articleBody" \/ item.headline

(* lines 329-332: the item a fragment is built from has a body *)
Usable(item) == Qualifies(item) /\ item.body # "none"

(* lines 324-336: the first usable item of one script, then break *)
ScanItems(s, items, found) ==
    IF \E i \in 1..Len(items) : Usable(items[i])
    THEN LET i == CHOOSE k \in 1..Len(items) :
                      Usable(items[k]) /\ \A j \in 1..(k - 1) : ~Usable(items[j])
         IN  [script |-> s, item |-> i,
              title |-> IF items[i].headline THEN "headline" ELSE "other",
              body |-> items[i].body]
    ELSE found

(* lines 312-338: every script in turn; the break of line 336 leaves the    *)
(* loop over items only                                                      *)
RECURSIVE ScanScripts(_, _, _)
ScanScripts(page, s, found) ==
    IF s > Len(page) THEN found
    ELSE ScanScripts(page, s + 1,
                     IF page[s].ok THEN ScanItems(s, page[s].items, found) ELSE found)

InitJsonLd ==
    /\ world = "jsonld"
    /\ now = 0
    /\ ticks = 0
    /\ started_count = 0
    /\ extraction_cache = EmptyCache
    /\ req = [r \in Slots |-> IdleRequest]
    /\ sanitizer = IdleSanitizer
    /\ proxy = IdleProxy
    /\ proxy_cache = <<>>
    /\ md = <<>>
    /\ token_cache = <<>>
    /\ optimizer = <<>>
    /\ limiter = <<>>
    /\ jsonld \in [pc : {"page"}, page : LdPages, fragment : {NoLdFragment}]
    /\ calls = <<>>

JsonLdScan ==
    /\ jsonld.pc = "page"
    /\ jsonld' = [jsonld EXCEPT !.pc = "scanned",
                                !.fragment = ScanScripts(jsonld.page, 1, NoLdFragment)]
    /\ UNCHANGED <<world, now, ticks, started_count, extraction_cache, req, sanitizer, proxy,
                   proxy_cache, md, token_cache, optimizer, limiter, calls>>

NextJsonLd == JsonLdScan

SpecJsonLd == InitJsonLd /\ [][NextJsonLd]_vars

----------------------------------------------------------------------------
(* core/rate_limiting.py: RateLimiter.is_allowed as RateLimitMiddleware      *)
(* calls it, on the event loop and without an await inside, so each call is  *)
(* one step.  log keeps every timestamp ever allowed, per key; requests is   *)
(* the limiter's own dictionary.                                             *)

window_size == 60

requests_per_minute == 2

MaxLimiterTicks == 3

MaxLimiterCalls == 4

LimiterKeys == {"ip1", "ip2"}

LimiterDeltas == {1, window_size - 1}

NewLimiter ==
    [requests |-> [k \in LimiterKeys |-> <<>>],
     log |-> [k \in LimiterKeys |-> <<>>],
     key |-> "ip1",
     result |-> FALSE]

InitLimiter ==
    /\ world = "limiter"
    /\ now = 0
    /\ ticks = 0
    /\ started_count = 0
    /\ extraction_cache = EmptyCache
    /\ req = [r \in Slots |-> IdleRequest]
    /\ sanitizer = IdleSanitizer
    /\ proxy = IdleProxy
    /\ proxy_cache = <<>>
    /\ md = <<>>
    /\ token_cache = <<>>
    /\ optimizer = <<>>
    /\ limiter = NewLimiter
    /\ jsonld = <<>>
    /\ calls = <<>>

LimiterFrame ==
    UNCHANGED <<world, extraction_cache, req, sanitizer, proxy,
                proxy_cache, md, token_cache, optimizer, jsonld, calls>>

LimiterTick(d) ==
    /\ ticks < MaxLimiterTicks
    /\ now' = now + d
    /\ ticks' = ticks + 1
    /\ UNCHANGED <<started_count, limiter>>
    /\ LimiterFrame

InWindow(req_time, t) == t - req_time < window_size

(* lines 38-39 *)
CleanOldRequests(times, t) == SelectSeq(times, LAMBDA req_time : InWindow(req_time, t))

UnderLimitInclusive(times) == Len(times) <= requests_per_minute

(* line 42 *)
UnderLimit(times) == Len(times) < requests_per_minute

(* lines 35-46 *)
is_allowed(key) ==
    /\ started_count < MaxLimiterCalls
    /\ started_count' = started_count + 1
    /\ LET kept == CleanOldRequests(limiter.requests[key], now)
           ok   == UnderLimit(kept)
       IN  limiter' =
             [requests |-> [limiter.requests EXCEPT ![key] = IF ok THEN Append(kept, now) ELSE kept],
              log |-> [limiter.log EXCEPT ![key] = IF ok THEN Append(@, now) ELSE @],
              key |-> key,
              result |-> ok]
    /\ UNCHANGED <<now, ticks>>
    /\ LimiterFrame

(* lines 48-61, called by dispatch after the response of an allowed request *)
get_remaining_requests(key) ==
    /\ limiter.log[key] # <<>>
    /\ CleanOldRequests(limiter.requests[key], now) # limiter.requests[key]
    /\ limiter' = [limiter EXCEPT !.requests[key] = CleanOldRequests(@, now)]
    /\ UNCHANGED <<now, ticks, started_count>>
    /\ LimiterFrame

NextLimiter ==
    \/ \E d \in LimiterDeltas : LimiterTick(d)
    \/ \E key \in LimiterKeys : is_allowed(key)
    \/ \E key \in LimiterKeys : get_remaining_requests(key)

SpecLimiter == InitLimiter /\ [][NextLimiter]_vars

----------------------------------------------------------------------------
(* Properties *)

Done(r) == req[r].pc = "done"

Answered(r) == Done(r) /\ req[r].response.status = 200

Names(t) == {t[i].s : i \in DOMAIN t}

NothingSucceeded(t) == \A i \in DOMAIN t : t[i].out # "content"

(* C1: every extract or extract_markdown request ends with a result object *)
(* and a 200 status, never with an error status.                           *)
C1_AlwaysResult ==
    \A r \in Slots :
        Done(r) => /\ req[r].response.status = 200
                   /\ "success" \in DOMAIN req[r].response.body

(* C2: an extract_markdown response has success = false and a reason exactly *)
(* when the extraction behind it failed, also when it is served from the     *)
(* cache; otherwise success = true and no reason.                            *)
C2_MarkdownReflectsExtraction ==
    \A r \in Slots :
        (Answered(r) /\ req[r].kind = "extract_markdown") =>
            LET b == req[r].response.body
            IN  IF req[r].result.success
                THEN b.success /\ "reason" \notin DOMAIN b
                ELSE ~b.success /\ "reason" \in DOMAIN b

(* The order the specification gives the fallback strategies *)
SpecRank(s) ==
    CASE s \in {"refetch", "third_party", "rawfetch"} -> 1
      [] s = "selectors" -> 2
      [] s = "jsonld" -> 3
      [] s = "amp" -> 4
      [] s = "playwright" -> 5

FirstContent(t) == CHOOSE i \in DOMAIN t : t[i].out = "content" /\ \A j \in 1..(i - 1) : t[j].out # "content"

(* C4: the fallback strategies run in the order re-fetch, selectors, JSON-LD, *)
(* AMP, headless render; after the first one that yields content no later one *)
(* is attempted, and the result is built from that winning fragment.          *)
C4_OrderedShortCircuit ==
    \A r \in Slots :
        (Answered(r) /\ req[r].path = "fresh") =>
            LET t == req[r].tried
            IN  /\ \A i, j \in DOMAIN t : i < j => SpecRank(t[i].s) <= SpecRank(t[j].s)
                /\ \A i, j \in DOMAIN t : i < j => t[i].out # "content"
                /\ ~NothingSucceeded(t) =>
                       req[r].result.reader_html.by = t[FirstContent(t)].s

(* C5: a strategy that fails, by raising or by yielding too little, never   *)
(* keeps the later strategies from being attempted: when nothing succeeds,  *)
(* the chain has run through all of them.                                   *)
C5_ChainRunsToExhaustion ==
    \A r \in Slots :
        (Answered(r) /\ req[r].path = "fresh") =>
            LET t == req[r].tried
            IN  (Names(t) \cap {"refetch", "rawfetch"} # {} /\ NothingSucceeded(t)) =>
                    {"selectors", "jsonld", "amp"} \subseteq Names(t)

(* C6: a browser launched by the headless-render fallback is closed, and the *)
(* driver stopped, before the call returns.                                  *)
C6_BrowserClosed ==
    \A r \in Slots :
        Answered(r) => req[r].browser # "open" /\ req[r].driver # "started"

(* C8: every entry of the extraction cache holds a successful result.        *)
C8_CacheHoldsSuccesses ==
    \A u \in DOMAIN extraction_cache : extraction_cache[u].data.success

Starting(r) == req'[r].id # req[r].id

Finishing(r) == req'[r] # req[r] /\ req'[r].pc = "done"

Age(u) == now - extraction_cache[u].cached_at

(* A request that begins while the cache holds an entry for its url is     *)
(* answered from it, with no fetch, when the entry is younger than the TTL, *)
(* and begins a fresh extraction otherwise.                                 *)
C3_CheckAtStart(r) ==
    (Starting(r) /\ req'[r].url \in DOMAIN extraction_cache) =>
        LET u == req'[r].url
        IN  IF Age(u) < CACHE_TTL
            THEN /\ req'[r].pc = "done"
                 /\ req'[r].path = "cache"
                 /\ req'[r].result = extraction_cache[u].data
                 /\ req'[r].tried = <<>>
            ELSE req'[r].pc = "sleep"

(* C3 as stated: an entry written at T is served without a fetch at T + 3599 *)
(* and is a miss at T + 3601; no entry is ever used once its age reaches TTL.*)
C3_UsedOnlyWhileFresh ==
    [][\A r \in Slots :
          /\ C3_CheckAtStart(r)
          /\ (Finishing(r) /\ req'[r].path \in {"cache", "stale"}) =>
                 /\ req'[r].url \in DOMAIN extraction_cache
                 /\ Age(req'[r].url) < CACHE_TTL]_vars

(* C3 amended: the cache check at the start of a request serves an entry     *)
(* only while its age is below TTL (served at T + 3599, a miss at T + 3601); *)
(* the stale read after a failed download may return an older entry, of age  *)
(* below 24 x TTL.                                                           *)
C3_CheckServesOnlyWhileFresh ==
    [][\A r \in Slots :
          /\ C3_CheckAtStart(r)
          /\ (Finishing(r) /\ req'[r].path = "cache") =>
                 /\ req'[r].url \in DOMAIN extraction_cache
                 /\ Age(req'[r].url) < CACHE_TTL
          /\ (Finishing(r) /\ req'[r].path = "stale") =>
                 /\ req'[r].url \in DOMAIN extraction_cache
                 /\ Age(req'[r].url) < CACHE_TTL * STALE_FACTOR
                 /\ req'[r].result = extraction_cache[req'[r].url].data]_vars

HeldAge(r) == req[r].started - req[r].held[req[r].url].cached_at

C3_ServedAt3599 ==
    \E r \in Slots :
        /\ Done(r)
        /\ req[r].path = "cache"
        /\ req[r].url \in DOMAIN req[r].held
        /\ HeldAge(r) = CACHE_TTL - 1

(* C7: when the request began with a previously successful entry for its url *)
(* of age at least TTL and below 24 x TTL, a failing fresh extraction is     *)
(* answered with that old entry, not with a failure.                         *)
C7_StaleInsteadOfFailure ==
    \A r \in Slots :
        (/\ Answered(r)
         /\ req[r].kind = "extract"
         /\ req[r].url \in DOMAIN req[r].held
         /\ req[r].held[req[r].url].data.success
         /\ HeldAge(r) >= CACHE_TTL
         /\ HeldAge(r) < CACHE_TTL * STALE_FACTOR) =>
            \/ req[r].result.success
            \/ req[r].result = req[r].held[req[r].url].data

HasHtml(result) == "reader_html" \in DOMAIN result /\ result.reader_html.len > 0

(* C10: every result returned by extract has success true exactly when its   *)
(* plain text or its HTML fragment is non-empty.                             *)
C10_SuccessIffContent ==
    \A r \in Slots :
        (Answered(r) /\ req[r].kind = "extract") =>
            (req[r].result.success <=> (req[r].result.content > 0 \/ HasHtml(req[r].result)))

(* C11: a result of extract with success false carries content, reader_html  *)
(* and markdown, each present and empty.                                     *)
C11_FailureFieldsEmpty ==
    \A r \in Slots :
        (Answered(r) /\ req[r].kind = "extract" /\ ~req[r].result.success) =>
            /\ {"content", "reader_html", "markdown"} \subseteq DOMAIN req[r].result
            /\ req[r].result.content = 0
            /\ req[r].result.reader_html.len = 0
            /\ req[r].result.markdown = 0

(* C12: the title of every result of extract is a non-empty string:          *)
(* "Untitled" stands in when no title was extracted, on every return path.   *)
C12_TitleNeverEmpty ==
    \A r \in Slots :
        (Answered(r) /\ req[r].kind = "extract") => req[r].result.title # ""

(* The cache after the cleanup that begins a request: the entries of age at  *)
(* most limit, each as it was.                                               *)
C13_CleanedTo(limit) ==
    \A r \in Slots :
        Starting(r) =>
            /\ DOMAIN extraction_cache' = {k \in DOMAIN extraction_cache : Age(k) <= limit}
            /\ \A k \in DOMAIN extraction_cache' : extraction_cache'[k] = extraction_cache[k]

(* C13 as stated: the cleanup at the start of a request leaves no entry that *)
(* is expired by TTL (of age TTL or more) and leaves every other entry as it *)
(* was.                                                                      *)
C13_NoExpiredEntryRemains ==
    [][C13_CleanedTo(CACHE_TTL - 1)]_vars

(* C13 amended: the cleanup at the start of a request removes exactly the    *)
(* entries older than TTL; an entry exactly TTL old stays, and every entry   *)
(* that stays is unchanged.                                                  *)
C13_CleanupRemovesOlderThanTTL ==
    [][C13_CleanedTo(CACHE_TTL)]_vars

C13_ExpiredRemovedAtStart ==
    \E r \in Slots :
        /\ req[r].pc = "sleep"
        /\ req[r].started = now
        /\ req[r].url \in DOMAIN req[r].held
        /\ req[r].url \notin DOMAIN extraction_cache
        /\ HeldAge(r) > CACHE_TTL
        /\ \E u \in DOMAIN extraction_cache : u # req[r].url /\ Age(u) <= CACHE_TTL
(* C14: the reader_html that extract returns for a fragment holds none of    *)
(* the removed elements, whatever images the fragment has.                   *)
C14_ReaderHtmlHasNoBannedElement ==
    sanitizer.pc = "reader" => ~sanitizer.reader.banned

(* C15: sanitizing with keep_images the output of sanitizing gives that      *)
(* output again: no second proxy layer, no second fade style.                *)
C15_SanitizeIdempotent ==
    (sanitizer.pc = "twice" /\ sanitizer.keep) =>
        /\ ~sanitizer.twice.raised
        /\ sanitizer.twice.doc = sanitizer.once.doc

(* C16: with keep_images and a base_url, every img that has a src comes out  *)
(* with the proxy URL of its resolved src, the resolved src kept beside it,  *)
(* and the lazy and async attributes, each of them when there are several.   *)
(* Stated for the documents all of whose imgs have a src.                    *)
C16_EveryImageProxied ==
    (/\ sanitizer.pc = "once" /\ sanitizer.keep /\ sanitizer.base
     /\ sanitizer.html.imgs # <<>>
     /\ \A i \in 1..Len(sanitizer.html.imgs) : HasSrc(sanitizer.html.imgs[i])) =>
        LET with_src == SelectSeq(sanitizer.html.imgs, HasSrc)
            out      == sanitizer.once.doc.imgs
        IN  /\ ~sanitizer.once.raised
            /\ Len(out) = Len(with_src)
            /\ \A i \in 1..Len(with_src) :
                  /\ out[i].src = Append(urljoin(TRUE, with_src[i].src), "rel")
                  /\ out[i].orig = urljoin(TRUE, with_src[i].src)
                  /\ out[i].lazy /\ out[i].async

(* C17: without keep_images the sanitizer returns the document with every    *)
(* img and every removed element gone.                                       *)
C17_ImagesRemoved ==
    (sanitizer.pc = "once" /\ ~sanitizer.keep) =>
        /\ ~sanitizer.once.raised
        /\ sanitizer.once.doc.imgs = <<>>
        /\ ~sanitizer.once.doc.banned
ImageDone == proxy.pc = "done" /\ proxy.endpoint = "image"

(* The identities tried so far are the first ones of the list, in its order, *)
(* and none was tried after one whose answer was returned.                   *)
C18_InOrderFirstWins(succeeds(_)) ==
    /\ \A i \in 1..Len(proxy.tried) : proxy.tried[i].ua = i
    /\ \A i \in 1..(Len(proxy.tried) - 1) : ~succeeds(proxy.tried[i].res)
    /\ (ImageDone /\ proxy.response.status = 200) =>
           /\ proxy.tried # <<>>
           /\ proxy.response.from = Len(proxy.tried)
           /\ succeeds(proxy.tried[Len(proxy.tried)].res)

C18_AllTriedAndFailed(succeeds(_)) ==
    /\ Len(proxy.tried) = USER_AGENTS
    /\ \A i \in 1..USER_AGENTS : ~succeeds(proxy.tried[i].res)

C18_FetchOk(res) == res.ok

C18_FetchTaken(res) == res.ok /\ (proxy.router = "improved" => res.image)

(* C18 as stated: proxy_image tries its identities in list order, returns    *)
(* the answer of the first one whose fetch succeeds, tries none after it,    *)
(* and the request fails only after every identity was tried and failed.     *)
C18_FailsOnlyWhenAllFailed ==
    proxy.endpoint = "image" =>
        /\ C18_InOrderFirstWins(C18_FetchOk)
        /\ (ImageDone /\ proxy.response.status # 200) => C18_AllTriedAndFailed(C18_FetchOk)

(* C18 amended: a fetch counts when it succeeds and, in content_improved.py, *)
(* its answer is of an image type or at least 1024 bytes; the 400 failure    *)
(* comes only after every identity was tried and none counted; the only      *)
(* other end is the 504 of the TimeoutMiddleware around the mounted router.  *)
C18_FirstAcceptedIdentityWins ==
    proxy.endpoint = "image" =>
        /\ C18_InOrderFirstWins(C18_FetchTaken)
        /\ ImageDone => proxy.response.status \in {200, 400, 504}
        /\ (ImageDone /\ proxy.response.status = 400) =>
               C18_AllTriedAndFailed(C18_FetchTaken)
        /\ (ImageDone /\ proxy.response.status = 504) =>
               /\ proxy.router = "content"
               /\ now - proxy.started >= REQUEST_TIMEOUT

C18_ThirdIdentityWon ==
    /\ ImageDone
    /\ proxy.response.status = 200
    /\ proxy.response.from = 3
    /\ Len(proxy.tried) = 3

(* C19: when the fetch of the proxy endpoint fails, the caller gets an       *)
(* object with message, url, lastError, attempts and suggestions; attempts   *)
(* is the number of identities tried, lastError holds the last status code.  *)
C19_StructuredError ==
    (proxy.pc = "done" /\ proxy.endpoint = "proxy" /\ proxy.response.status # 200) =>
        /\ {"message", "url", "lastError", "attempts", "suggestions"}
               \subseteq DOMAIN proxy.response.body
        /\ proxy.response.body.attempts = Len(proxy.tried)
        /\ proxy.response.body.lastError = proxy.last_error.status

(* C20: a proxy/image request for a data: URL is rejected before any         *)
(* identity has fetched.                                                     *)
C20_DataUrlRejectedAtOnce ==
    (ImageDone /\ proxy.scheme = "data") =>
        /\ proxy.response.status # 200
        /\ proxy.tried = <<>>

(* C21: when the proxy cache holds more than its ceiling at the start of a   *)
(* request, the entries evicted are the least recently accessed ones: none   *)
(* of them was accessed later than a retained entry, whatever their age;     *)
(* eviction stops as soon as at most 80% of the ceiling is held (putting     *)
(* back the evicted entry accessed last would exceed it), and a cache not    *)
(* over its ceiling loses nothing.                                           *)
C21_Evicted == proxy_cache.purged \ proxy_cache.kept

C21_LruEviction ==
    world = "proxycache" =>
        /\ proxy_cache.kept \subseteq proxy_cache.purged
        /\ Usage(proxy_cache.purged) <= PROXY_CACHE_CEILING => C21_Evicted = {}
        /\ Usage(proxy_cache.purged) > PROXY_CACHE_CEILING =>
              /\ AtTarget(proxy_cache.kept)
              /\ \A r \in C21_Evicted, k \in proxy_cache.kept :
                    r.lastAccessedAt <= k.lastAccessedAt
              /\ \E r \in C21_Evicted :
                    /\ \A q \in C21_Evicted : q.lastAccessedAt <= r.lastAccessedAt
                    /\ ~AtTarget(proxy_cache.kept \cup {r})

(* an eviction that removed an entry cached later than one it retained *)
C21_EvictedYoungerThanRetained ==
    /\ world = "proxycache"
    /\ Usage(proxy_cache.purged) > PROXY_CACHE_CEILING
    /\ \E r \in C21_Evicted, k \in proxy_cache.kept :
          /\ r.cachedAt > k.cachedAt
          /\ r.lastAccessedAt < k.lastAccessedAt

(* C22: in the Markdown returned, a heading that the raw conversion put      *)
(* directly above a paragraph is followed by exactly one blank line and then *)
(* the paragraph, and the output has no three blank lines in a row.          *)
C22_BlankRun(lines, i, n) ==
    /\ i + n - 1 <= Len(lines)
    /\ \A j \in i..(i + n - 1) : lines[j].kind = "blank"

C22_HeadingAbovePara(lines) ==
    \E i \in 1..(Len(lines) - 1) : lines[i] = Heading /\ lines[i + 1] = Para

C22_OneBlankBetween(lines) ==
    \E i \in 1..(Len(lines) - 2) :
        lines[i] = Heading /\ lines[i + 1] = Blank /\ lines[i + 2] = Para

C22_HeadingSpacingAndNoBlankRuns ==
    (world = "markdown" /\ md.pc # "raw") =>
        /\ C22_HeadingAbovePara(md.raw) =>
              C22_OneBlankBetween(md.out) /\ ~C22_HeadingAbovePara(md.out)
        /\ \A i \in 1..Len(md.out) : ~C22_BlankRun(md.out, i, 3)

(* C27: the service's reflow of a paragraph line of n words, as the text     *)
(* returned for it: k = ceil(n / 15) chunks in order, chunk j holding the    *)
(* words 15(j-1)+1 .. 15j and the last one the words up to n, one blank line *)
(* between two chunks.                                                       *)
C27_ReflowedInChunks(line, out) ==
    LET n == line.last
        k == (n + 14) \div 15
    IN  /\ Len(out) = 2 * k - 1
        /\ \A j \in 1..k :
              /\ out[2 * j - 1].kind = "text"
              /\ out[2 * j - 1].first = 15 * (j - 1) + 1
              /\ out[2 * j - 1].last = (IF j < k THEN 15 * j ELSE n)
        /\ \A j \in 1..(k - 1) : out[2 * j] = Blank

C27_OneTextLine ==
    /\ world = "markdown"
    /\ md.pc = "service"
    /\ Len(md.raw) = 1
    /\ md.raw[1].kind = "text"

C28_Unmarked(t) == t # <<>> /\ ~Has(t, "*") /\ ~Has(t, "_")

C28_Emphases == {<<"*">>, <<"*", "*">>, <<"_">>}

C28_OneLink ==
    /\ world = "markdown"
    /\ md.pc = "service"
    /\ Len(md.raw) = 1
    /\ md.raw[1].kind = "link"

C28_EmphasisHoisted ==
    C28_OneLink =>
        /\ \A e \in C28_Emphases, t \in LinkTexts :
              (C28_Unmarked(t) /\ md.raw[1].text = e \o t \o e /\ md.raw[1].url > 0) =>
                  md.out = <<LinkLine(md.raw[1].image, e, t, md.raw[1].url)>>
        /\ \A i \in 1..Len(md.out) :
              md.out[i].kind = "link" => md.out[i].text # <<>> /\ md.out[i].url > 0

(* C23: a result of extract built from the JSON-LD fragment (a page whose    *)
(* only article data is its JSON-LD block) has success true, carries the     *)
(* fragment with the synthesized heading, and has the articleBody text in    *)
(* its content field.                                                        *)
C23_JsonLdBodyInContent ==
    \A r \in Slots :
        (Answered(r) /\ req[r].kind = "extract" /\ req[r].path = "fresh"
         /\ req[r].result.reader_html.by = "jsonld") =>
            /\ req[r].result.success
            /\ req[r].result.reader_html.len > JSONLD_WRAPPER
            /\ req[r].result.content > 0

(* C24: a finished call of decode_jwt_token returned the cached user data    *)
(* exactly when the cache held, for the token's hash, an entry younger than  *)
(* 300 s, and did so without contacting the auth provider; every other call, *)
(* also one that found an entry 300 s old or older, had the token validated  *)
(* by the provider; and only a call whose validation succeeded wrote.        *)
C24_CachedIffFreshEntry ==
    world = "jwt" =>
        \A th \in Threads :
            calls[th].pc = "done" =>
                /\ calls[th].result = "cached" <=> calls[th].seen = "fresh"
                /\ calls[th].result = "cached" => ~calls[th].contacted
                /\ calls[th].seen # "fresh" => calls[th].contacted
                /\ calls[th].wrote => calls[th].result = "validated"

(* C25: whenever no call of execute_with_limit is in flight, total_queries   *)
(* equals successful_queries + failed_queries + timeout_queries.             *)
C25_CountersAddUp ==
    (world = "db" /\ \A c \in DbSlots : calls[c].pc \in {"idle", "done"}) =>
        optimizer.stats.total_queries =
            optimizer.stats.successful_queries + optimizer.stats.failed_queries
            + optimizer.stats.timeout_queries

(* C26: after the scan of a page whose JSON-LD holds items that qualify and  *)
(* carry a body text, the fragment is built from the first of them in        *)
(* document order: no item of a later script, or later in the same script,   *)
(* replaces it.                                                              *)
C26_Before(s1, i1, s2, i2) == s1 < s2 \/ (s1 = s2 /\ i1 < i2)

C26_FirstQualifyingItemWins ==
    (world = "jsonld" /\ jsonld.pc = "scanned") =>
        \A s \in 1..Len(jsonld.page) :
            jsonld.page[s].ok =>
                \A i \in 1..Len(jsonld.page[s].items) :
                    Usable(jsonld.page[s].items[i]) =>
                        /\ jsonld.fragment # NoLdFragment
                        /\ ~C26_Before(s, i, jsonld.fragment.script, jsonld.fragment.item)

(* C29: for every key, the requests ever allowed whose timestamps lie in one *)
(* window of 60 seconds (from a timestamp t up to, not including, t + 60)    *)
(* are never more than requests_per_minute; a call that rejects leaves no    *)
(* new timestamp in the key's list; and a call for one key leaves the list   *)
(* of every other key as it was.                                             *)
C29_InWindowFrom(k, t) ==
    {j \in DOMAIN limiter.log[k] : t <= limiter.log[k][j] /\ limiter.log[k][j] < t + 60}

C29_WindowsWithinLimit ==
    world = "limiter" =>
        \A k \in LimiterKeys : \A i \in DOMAIN limiter.log[k] :
            Cardinality(C29_InWindowFrom(k, limiter.log[k][i])) <= requests_per_minute

C29_CallStep ==
    (world = "limiter" /\ started_count' # started_count) =>
        /\ \A k \in LimiterKeys \ {limiter'.key} :
              limiter'.requests[k] = limiter.requests[k] /\ limiter'.log[k] = limiter.log[k]
        /\ ~limiter'.result =>
              /\ limiter'.log = limiter.log
              /\ Len(limiter'.requests[limiter'.key]) <= Len(limiter.requests[limiter'.key])
              /\ \A i \in DOMAIN limiter'.requests[limiter'.key] :
                    \E j \in DOMAIN limiter.requests[limiter'.key] :
                        limiter'.requests[limiter'.key][i] = limiter.requests[limiter'.key][j]

C29_RateLimitHolds == []C29_WindowsWithinLimit /\ [][C29_CallStep]_vars

(* a key at its limit is rejected one second before its oldest request       *)
(* leaves the window, while the other key has been served                    *)
C29_RejectedAtLimit ==
    /\ world = "limiter"
    /\ ~limiter.result
    /\ Len(limiter.log[limiter.key]) = requests_per_minute
    /\ now - limiter.log[limiter.key][1] = 59
    /\ \E k \in LimiterKeys \ {limiter.key} : limiter.log[k] # <<>>

(* C30: when proxy_image has tried every identity and answers 400, the error *)
(* in its detail is the failure of the last attempt made, whether that was   *)
(* an error status, a network exception or a small answer that is no image.  *)
C30_ReportsLastFailedAttempt ==
    (world = "proxy" /\ ImageDone /\ proxy.response.status = 400) =>
        /\ Len(proxy.tried) = USER_AGENTS
        /\ proxy.response.body.detail.error = proxy.tried[USER_AGENTS].res

====
